---- MODULE Spec2Model ----
(***************************************************************************)
(* NSE institutional accumulation analyzer.                                *)
(*   src/app/api/analyze/route.ts : calendar, row parser, deal fetcher,    *)
(*                                  classifier, aggregator, POST stream     *)
(*   src/app/page.tsx             : the stream consumer of the page         *)
(* Text is modelled as sequences of one-character strings, so that         *)
(* splitting, trimming, upper-casing and substring search are computed.    *)
(***************************************************************************)
EXTENDS Integers, Sequences, FiniteSets, TLC

VARIABLES
  call,      \* a call of one pure function: [arg, ret, done]
  today,     \* new Date() of the run (local calendar date)
  pc,        \* position of the start(controller) callback of POST
  dates,     \* const dates = getLastNBusinessDays(5)
  idx,       \* position of the for..of loop in dates (1-based)
  deals,     \* value of `await downloadBhavCopy(...)` of the current day
  allDeals,  \* const allDeals: Deal[]
  ctrl,      \* state of the ReadableStream controller
  log,       \* every controller.enqueue / controller.close call, in order
  outcome,   \* what the current day's fetch did
  fault,     \* history: an exception reached the catch of POST
  wire,      \* bytes of the response body not yet read by the page
  client     \* the page: [pc, loading, results, error, progress, applied]

pureVars == <<call>>
serverVars == <<today, pc, dates, idx, deals, allDeals, ctrl, log, outcome, fault>>
clientVars == <<wire, client>>
vars == <<call, today, pc, dates, idx, deals, allDeals, ctrl, log, outcome, fault,
          wire, client>>

-----------------------------------------------------------------------------
(* Bounds of the model *)

MaxLineLen == 5

-----------------------------------------------------------------------------
(* Text helpers (JavaScript String methods) *)

Lower == <<"a","b","c","d","e","f","g","h","i","j","k","l","m",
           "n","o","p","q","r","s","t","u","v","w","x","y","z">>
Upper == <<"A","B","C","D","E","F","G","H","I","J","K","L","M",
           "N","O","P","Q","R","S","T","U","V","W","X","Y","Z">>

\* String.prototype.toUpperCase, one character
UpperOf == [c \in {Lower[k] : k \in 1..26} |-> Upper[CHOOSE k \in 1..26 : Lower[k] = c]]

ToUpperChar(c) == IF c \in DOMAIN UpperOf THEN UpperOf[c] ELSE c

toUpperCase(s) == [k \in 1..Len(s) |-> ToUpperChar(s[k])]

\* white space as String.prototype.trim sees it
IsSpace(c) == c \in {" ", "\t", "\r", "\n"}

RECURSIVE TrimStart(_)
TrimStart(s) ==
  IF s # <<>> /\ IsSpace(Head(s)) THEN TrimStart(Tail(s)) ELSE s

RECURSIVE TrimEnd(_)
TrimEnd(s) ==
  IF s # <<>> /\ IsSpace(s[Len(s)]) THEN TrimEnd(SubSeq(s, 1, Len(s) - 1)) ELSE s

trim(s) == TrimEnd(TrimStart(s))

\* String.prototype.startsWith
startsWith(s, p) == Len(s) >= Len(p) /\ SubSeq(s, 1, Len(p)) = p

\* String.prototype.includes
includes(s, p) ==
  \E k \in 0..(Len(s) - Len(p)) : SubSeq(s, k + 1, k + Len(p)) = p

\* String.prototype.split on one separator character: the pieces between
\* consecutive separators, empty pieces included
split(s, sep) ==
  LET at == {p \in 1..Len(s) : s[p] = sep}
      nth == [k \in 1..Cardinality(at) |->
                CHOOSE p \in at : Cardinality({q \in at : q < p}) = k - 1]
  IN  [k \in 1..(Cardinality(at) + 1) |->
         SubSeq(s, IF k = 1 THEN 1 ELSE nth[k - 1] + 1,
                   IF k = Cardinality(at) + 1 THEN Len(s) ELSE nth[k] - 1)]

\* const x = v; F(x): v is evaluated once, before F
Const(v, F(_)) == CHOOSE r \in {F(x) : x \in {v}} : TRUE

\* all sequences over S of length 0..n
SeqsUpTo(S, n) == UNION {[1..k -> S] : k \in 0..n}

-----------------------------------------------------------------------------
(* parseCSVLine *)

\* one iteration of the for loop over line[i]
ParseChar_NoQuoteToggle(st, char) ==
  IF char = "\"" THEN st
  ELSE IF char = "," /\ ~st.inQuotes
    THEN [st EXCEPT !.result = Append(@, trim(st.current)), !.current = <<>>]
  ELSE [st EXCEPT !.current = Append(@, char)]

ParseChar(st, char) ==
  IF char = "\"" THEN [st EXCEPT !.inQuotes = ~@]
  ELSE IF char = "," /\ ~st.inQuotes
    THEN [st EXCEPT !.result = Append(@, trim(st.current)), !.current = <<>>]
  ELSE [st EXCEPT !.current = Append(@, char)]

RECURSIVE ParseLoop(_, _, _)
ParseLoop(line, i, st) ==
  IF i > Len(line) THEN st ELSE ParseLoop(line, i + 1, ParseChar(st, line[i]))

parseCSVLine(line) ==
  LET st == ParseLoop(line, 1, [result |-> <<>>, current |-> <<>>, inQuotes |-> FALSE])
  IN  Append(st.result, trim(st.current))

-----------------------------------------------------------------------------
(* Calls of the row parser on every short line *)

LineChars == {"a", ",", "\"", " "}

RowInit ==
  /\ call \in {[arg |-> l, ret |-> <<>>, done |-> FALSE] : l \in SeqsUpTo(LineChars, MaxLineLen)}
  /\ today = <<>> /\ pc = "idle" /\ dates = <<>> /\ idx = 0 /\ deals = <<>>
  /\ allDeals = <<>> /\ ctrl = "readable" /\ log = <<>> /\ outcome = "none"
  /\ fault = FALSE /\ wire = <<>> /\ client = <<>>

CallParseCSVLine ==
  /\ ~call.done
  /\ call' = [call EXCEPT !.ret = parseCSVLine(call.arg), !.done = TRUE]
  /\ UNCHANGED <<serverVars, clientVars>>

RowNext == CallParseCSVLine

RowSpec == RowInit /\ [][RowNext]_vars

\* number of quote characters before position p of the line
QuotesBefore(line, p) == Cardinality({q \in 1..(p - 1) : line[q] = "\""})

\* delimiters outside / inside quoted spans
SplitPoints(line) ==
  {p \in 1..Len(line) : line[p] = "," /\ QuotesBefore(line, p) % 2 = 0}
QuotedCommas(line) ==
  {p \in 1..Len(line) : line[p] = "," /\ QuotesBefore(line, p) % 2 = 1}

RECURSIVE CountIn(_, _)
CountIn(fs, c) ==
  IF fs = <<>> THEN 0
  ELSE Cardinality({k \in 1..Len(Head(fs)) : Head(fs)[k] = c}) + CountIn(Tail(fs), c)

\* C8: for every line, parseCSVLine returns 1 + k fields, k the number of
\* commas outside quoted spans; commas inside quoted spans stay in the
\* fields; no field holds a quote character; every field is trimmed.
C8_RowParser ==
  call.done =>
    /\ Len(call.ret) = 1 + Cardinality(SplitPoints(call.arg))
    /\ CountIn(call.ret, ",") = Cardinality(QuotedCommas(call.arg))
    /\ CountIn(call.ret, "\"") = 0
    /\ \A k \in 1..Len(call.ret) :
         LET f == call.ret[k]
         IN  f # <<>> => ~IsSpace(f[1]) /\ ~IsSpace(f[Len(f)])

\* a line with an unbalanced quote and a comma on each side of it was parsed
C8_Witness ==
  /\ call.done
  /\ call.arg = <<"a", ",", "\"", ",", " ">>
  /\ call.ret = <<<<"a">>, <<",">>>>

-----------------------------------------------------------------------------
(* Calendar: JavaScript Date restricted to its local calendar date *)

IsLeap(y) == (y % 4 = 0 /\ y % 100 # 0) \/ y % 400 = 0

DaysInMonth(y, m) ==
  IF m = 2 THEN (IF IsLeap(y) THEN 29 ELSE 28)
  ELSE IF m \in {4, 6, 9, 11} THEN 30 ELSE 31

LeapsBefore(y) == ((y - 1) \div 4) - ((y - 1) \div 100) + ((y - 1) \div 400)

RECURSIVE DaysBeforeMonth(_, _)
DaysBeforeMonth(y, m) ==
  IF m = 1 THEN 0 ELSE DaysBeforeMonth(y, m - 1) + DaysInMonth(y, m - 1)

\* days since 1 January 2000, a Saturday
DayNumber(date) ==
  365 * (date.y - 2000) + (LeapsBefore(date.y) - LeapsBefore(2000))
    + DaysBeforeMonth(date.y, date.m) + (date.d - 1)

\* Date.prototype.getDay: 0 = Sunday .. 6 = Saturday
getDay(date) == (DayNumber(date) + 6) % 7

\* currentDate.setDate(currentDate.getDate() - 1)
SetDateMinusOne_NoRollover(date) ==
  IF date.d > 1 THEN [date EXCEPT !.d = @ - 1]
  ELSE [date EXCEPT !.d = 28]

SetDateMinusOne(date) ==
  IF date.d > 1 THEN [date EXCEPT !.d = @ - 1]
  ELSE IF date.m > 1
    THEN [date EXCEPT !.m = @ - 1, !.d = DaysInMonth(date.y, date.m - 1)]
  ELSE [date EXCEPT !.y = @ - 1, !.m = 12, !.d = 31]

\* the while (count < n) loop of getLastNBusinessDays
RECURSIVE BusinessDaysLoop(_, _, _, _)
BusinessDaysLoop(n, ds, count, currentDate) ==
  IF ~(count < n) THEN ds
  ELSE LET dayOfWeek == getDay(currentDate)
           weekday == dayOfWeek # 0 /\ dayOfWeek # 6
       IN  BusinessDaysLoop(n,
             IF weekday THEN Append(ds, currentDate) ELSE ds,
             IF weekday THEN count + 1 ELSE count,
             SetDateMinusOne(currentDate))

\* getLastNBusinessDays(n), with `today` the value of new Date()
getLastNBusinessDays(n, now) == BusinessDaysLoop(n, <<>>, 0, now)

\* the analysis window of POST
WindowDays == 5

-----------------------------------------------------------------------------
(* Calls of the calendar on every reference date of two years *)

MaxN == 6

RefDates ==
  {[y |-> yy, m |-> mm, d |-> dd] :
     yy \in 2023..2024, mm \in 1..12, dd \in 1..31} \ 
  {dt \in [y : 2023..2024, m : 1..12, d : 29..31] : dt.d > DaysInMonth(dt.y, dt.m)}

IdleServer ==
  /\ today = <<>> /\ pc = "idle" /\ dates = <<>> /\ idx = 0 /\ deals = <<>>
  /\ allDeals = <<>> /\ ctrl = "readable" /\ log = <<>> /\ outcome = "none"
  /\ fault = FALSE

IdleClient == wire = <<>> /\ client = <<>>

CalendarInit ==
  /\ call \in {[arg |-> [n |-> k, now |-> dt], ret |-> <<>>, done |-> FALSE] :
                 k \in 1..MaxN, dt \in RefDates}
  /\ IdleServer /\ IdleClient

CallGetLastNBusinessDays ==
  /\ ~call.done
  /\ call' = [call EXCEPT !.ret = getLastNBusinessDays(call.arg.n, call.arg.now),
                          !.done = TRUE]
  /\ UNCHANGED <<serverVars, clientVars>>

CalendarNext == CallGetLastNBusinessDays

CalendarSpec == CalendarInit /\ [][CalendarNext]_vars

IsWeekend(date) == getDay(date) \in {0, 6}

\* C9: for every n >= 1 and reference date the calendar returns exactly n
\* dates, strictly decreasing, none a Saturday or Sunday, the first being
\* the reference date when that is a business day (else the closest earlier
\* business day), and every weekday between the first and the last is there.
C9_Calendar ==
  call.done =>
    LET ds == call.ret
        num == [k \in 1..Len(ds) |-> DayNumber(ds[k])]
        ref == DayNumber(call.arg.now)
    IN  /\ Len(ds) = call.arg.n
        /\ \A k \in 1..Len(ds) : ds[k] \in RefDates \cup [y : {2022}, m : {12}, d : 1..31]
        /\ \A k \in 1..(Len(ds) - 1) : num[k] > num[k + 1]
        /\ \A k \in 1..Len(ds) : (num[k] + 6) % 7 \notin {0, 6}
        /\ num[1] <= ref
        /\ ~IsWeekend(call.arg.now) => ds[1] = call.arg.now
        /\ \A x \in num[Len(ds)]..ref :
             (x + 6) % 7 \notin {0, 6} => \E k \in 1..Len(ds) : num[k] = x

\* a window that starts on a Sunday and crosses the leap day and a month end
C9_Witness ==
  /\ call.done
  /\ call.arg = [n |-> 3, now |-> [y |-> 2024, m |-> 3, d |-> 3]]
  /\ call.ret = << [y |-> 2024, m |-> 3, d |-> 1],
                   [y |-> 2024, m |-> 2, d |-> 29],
                   [y |-> 2024, m |-> 2, d |-> 28] >>

-----------------------------------------------------------------------------
(* isInstitutional *)

INSTITUTIONAL_KEYWORDS == <<
  <<"I","N","S","U","R","A","N","C","E">>,
  <<"M","U","T","U","A","L"," ","F","U","N","D">>,
  <<"L","I","C">>,
  <<"T","R","U","S","T">>,
  <<"B","A","N","K">>,
  <<"S","E","C","U","R","I","T","I","E","S">>,
  <<"I","N","V","E","S","T","M","E","N","T">>,
  <<"C","A","P","I","T","A","L">>,
  <<"F","U","N","D">>,
  <<"A","S","S","E","T"," ","M","A","N","A","G","E","M","E","N","T">>,
  <<"P","E","N","S","I","O","N">>,
  <<"P","M","S">>,
  <<"A","I","F">>,
  <<"F","I","I">>,
  <<"D","I","I">>,
  <<"I","N","S","T","I","T","U","T","I","O","N","A","L">>,
  <<"F","I","N","A","N","C","I","A","L"," ","S","E","R","V","I","C","E","S">>,
  <<"W","E","A","L","T","H">>,
  <<"H","O","L","D","I","N","G","S">>
>>

isInstitutional(clientName) ==
  LET upperClient == toUpperCase(clientName)
  IN  \E k \in 1..Len(INSTITUTIONAL_KEYWORDS) : includes(upperClient, INSTITUTIONAL_KEYWORDS[k])


-----------------------------------------------------------------------------
(* analyzeAccumulation *)

\* the slice(0, 10) of the ranking
TopN == 10

Qualifies_AnyClient(deal) == deal.dealType = <<"B","U","Y">>

\* deal.dealType === 'BUY' && isInstitutional(deal.clientName)
Qualifies(deal) == deal.dealType = <<"B","U","Y">> /\ isInstitutional(deal.clientName)

\* allDeals.filter(deal => deal.dealType === 'BUY' && isInstitutional(deal.clientName))
RECURSIVE InstitutionalDeals(_)
InstitutionalDeals(ds) ==
  IF ds = <<>> THEN <<>>
  ELSE IF Qualifies(Head(ds)) THEN <<Head(ds)>> \o InstitutionalDeals(Tail(ds))
  ELSE InstitutionalDeals(Tail(ds))

\* stockMap as the sequence of its entries in insertion order
MapHas(stockMap, symbol) == \E k \in 1..Len(stockMap) : stockMap[k].symbol = symbol

MapSet(stockMap, symbol, deal) ==
  IF MapHas(stockMap, symbol)
    THEN [k \in 1..Len(stockMap) |->
            IF stockMap[k].symbol = symbol
              THEN [stockMap[k] EXCEPT !.totalBuyQuantity = @ + deal.quantity,
                                       !.totalBuyValue = @ + deal.value,
                                       !.transactions = @ + 1]
              ELSE stockMap[k]]
    ELSE Append(stockMap, [symbol |-> symbol,
                           totalBuyQuantity |-> 0 + deal.quantity,
                           totalBuyValue |-> 0 + deal.value,
                           transactions |-> 0 + 1])

\* for (const deal of institutionalDeals) { ... stockMap.set(...) }
RECURSIVE Accumulate(_, _)
Accumulate(ds, stockMap) ==
  IF ds = <<>> THEN stockMap
  ELSE Const(Tail(ds), LAMBDA rest :
       Const(MapSet(stockMap, Head(ds).symbol, Head(ds)), LAMBDA updated :
         Accumulate(rest, updated)))

\* Array.from(stockMap.entries()).map(...): avgPrice is kept as the quotient
\* totalBuyValue / totalBuyQuantity, numerator and denominator
WithAverage(entry) ==
  [symbol |-> entry.symbol,
   totalBuyQuantity |-> entry.totalBuyQuantity,
   totalBuyValue |-> entry.totalBuyValue,
   transactions |-> entry.transactions,
   avgPrice |-> [num |-> entry.totalBuyValue, den |-> entry.totalBuyQuantity]]

\* the comparator (a, b) => b.totalBuyValue - a.totalBuyValue
Compare(a, b) == b.totalBuyValue - a.totalBuyValue

\* Array.prototype.sort is stable: an element goes after every element
\* already placed that does not compare greater than it
RECURSIVE InsertSorted(_, _)
InsertSorted(sorted, e) ==
  IF sorted = <<>> THEN <<e>>
  ELSE IF Compare(Head(sorted), e) <= 0 THEN <<Head(sorted)>> \o InsertSorted(Tail(sorted), e)
  ELSE <<e>> \o sorted

RECURSIVE StableSort(_, _)
StableSort(rest, sorted) ==
  IF rest = <<>> THEN sorted
  ELSE Const(Tail(rest), LAMBDA later :
       Const(InsertSorted(sorted, Head(rest)), LAMBDA placed :
         StableSort(later, placed)))

\* results.slice(0, 10)
Slice_OffByOne(results) == SubSeq(results, 1, IF Len(results) < TopN - 1 THEN Len(results) ELSE TopN - 1)

Slice(results) == SubSeq(results, 1, IF Len(results) < TopN THEN Len(results) ELSE TopN)

analyzeAccumulation(ds) ==
  Const(InstitutionalDeals(ds), LAMBDA institutionalDeals :
  Const(Accumulate(institutionalDeals, <<>>), LAMBDA stockMap :
  Const([k \in 1..Len(stockMap) |-> WithAverage(stockMap[k])], LAMBDA results :
    Slice(StableSort(results, <<>>)))))

-----------------------------------------------------------------------------
(* Calls of the aggregator *)

MaxDeals == 3
MaxSymbols == 11

BUY == <<"B","U","Y">>

\* a Deal as downloadBhavCopy builds it
Deal(date, symbol, clientName, quantity, price) ==
  [date |-> date, symbol |-> symbol, clientName |-> clientName, dealType |-> BUY,
   quantity |-> quantity, price |-> price, value |-> quantity * price]

SomeDate == [y |-> 2024, m |-> 3, d |-> 1]

ClientNames == { <<"L","i","c">>, <<"R","A","J">> }

\* every short sequence of deals of two symbols
SmallInputs ==
  SeqsUpTo({Deal(SomeDate, <<sym>>, cl, qp[1], qp[2]) :
              sym \in {"A", "B"}, cl \in ClientNames, qp \in {<<1, 1>>, <<2, 3>>}},
           MaxDeals)

\* one institutional deal of value 1 or 2 for each of up to MaxSymbols symbols
WideInputs ==
  UNION {{[k \in 1..n |-> Deal(SomeDate, <<Upper[k]>>, <<"l","i","c">>, 1, v[k])] :
            v \in [1..n -> {1, 2}]} : n \in 0..MaxSymbols}

AggInit ==
  /\ call \in {[arg |-> ds, ret |-> <<>>, done |-> FALSE] : ds \in SmallInputs \cup WideInputs}
  /\ IdleServer /\ IdleClient

CallAnalyzeAccumulation ==
  /\ ~call.done
  /\ call' = [call EXCEPT !.ret = analyzeAccumulation(call.arg), !.done = TRUE]
  /\ UNCHANGED <<serverVars, clientVars>>

AggNext == CallAnalyzeAccumulation

AggSpec == AggInit /\ [][AggNext]_vars

RECURSIVE SumOver(_, _)
SumOver(S, f) ==
  IF S = {} THEN 0
  ELSE LET x == CHOOSE x \in S : TRUE IN f[x] + SumOver(S \ {x}, f)

\* positions of the input deals that are BUY deals of an institutional
\* counterparty
QualifyingAt(ds) ==
  {k \in 1..Len(ds) : ds[k].dealType = BUY /\ isInstitutional(ds[k].clientName)}

\* per symbol with a qualifying deal: sums, count and first position over
\* exactly its qualifying deals
Expected(ds) ==
  LET qual == QualifyingAt(ds)
      syms == {ds[k].symbol : k \in qual}
      of == [s \in syms |-> {k \in qual : ds[k].symbol = s}]
  IN  [s \in syms |->
         [value |-> SumOver(of[s], [k \in 1..Len(ds) |-> ds[k].value]),
          quantity |-> SumOver(of[s], [k \in 1..Len(ds) |-> ds[k].quantity]),
          count |-> Cardinality(of[s]),
          first |-> CHOOSE k \in of[s] : \A j \in of[s] : k <= j]]

\* a ranks before b: larger total, or equal total and met first
RanksBefore(a, b) ==
  \/ a.value > b.value
  \/ a.value = b.value /\ a.first < b.first

\* C5: the output has at most 10 entries, one per symbol, in non-increasing
\* totalBuyValue with ties in order of first qualifying deal, and it is the
\* first 10 of that ordering of all qualifying symbols.
C5_TopTen ==
  call.done =>
    LET out == call.ret
        exp == Expected(call.arg)
        syms == DOMAIN exp
        shown == {out[k].symbol : k \in 1..Len(out)}
    IN  /\ Len(out) <= 10
        /\ Len(out) = (IF Cardinality(syms) < 10 THEN Cardinality(syms) ELSE 10)
        /\ \A j, k \in 1..Len(out) : j # k => out[j].symbol # out[k].symbol
        /\ shown \subseteq syms
        /\ \A k \in 1..Len(out) : out[k].totalBuyValue = exp[out[k].symbol].value
        /\ \A k \in 1..(Len(out) - 1) : RanksBefore(exp[out[k].symbol], exp[out[k + 1].symbol])
        /\ \A s \in syms \ shown :
             \A k \in 1..Len(out) : RanksBefore(exp[out[k].symbol], exp[s])

\* 11 qualifying symbols with tied totals were ranked and cut to 10
C5_Witness ==
  /\ call.done
  /\ Len(call.arg) = 11
  /\ Len(call.ret) = 10
  /\ \E j \in 1..9 : call.ret[j].totalBuyValue = call.ret[j + 1].totalBuyValue
  /\ call.ret[1].totalBuyValue > call.ret[10].totalBuyValue

\* C6: every returned entry carries the sum of quantity, the sum of value and
\* the count of exactly the BUY deals of institutional counterparties of its
\* symbol; transactions >= 1 and totalBuyQuantity > 0, so the denominator of
\* the average price is never zero.
C6_Totals ==
  call.done =>
    LET exp == Expected(call.arg)
    IN  \A k \in 1..Len(call.ret) :
          LET e == call.ret[k]
          IN  /\ e.symbol \in DOMAIN exp
              /\ e.totalBuyQuantity = exp[e.symbol].quantity
              /\ e.totalBuyValue = exp[e.symbol].value
              /\ e.transactions = exp[e.symbol].count
              /\ e.transactions >= 1
              /\ e.totalBuyQuantity > 0
              /\ e.avgPrice = [num |-> e.totalBuyValue, den |-> e.totalBuyQuantity]
              /\ e.avgPrice.den # 0

\* a symbol with two institutional deals and one deal of an individual
C6_Witness ==
  /\ call.done
  /\ Len(call.arg) = 3
  /\ \A k \in 1..3 : call.arg[k].symbol = <<"A">>
  /\ isInstitutional(call.arg[1].clientName)
  /\ ~isInstitutional(call.arg[2].clientName)
  /\ isInstitutional(call.arg[3].clientName)
  /\ Len(call.ret) = 1
  /\ call.ret[1].transactions = 2


-----------------------------------------------------------------------------
(* downloadBhavCopy: from the response text to the deals *)

Digits == <<"0","1","2","3","4","5","6","7","8","9">>
DigitValue == [c \in {Digits[k] : k \in 1..10} |-> (CHOOSE k \in 1..10 : Digits[k] = c) - 1]
IsDigit(c) == c \in DOMAIN DigitValue

\* the leading run of decimal digits of s, as a number, and its length
RECURSIVE DigitRun(_, _, _)
DigitRun(s, acc, n) ==
  IF s # <<>> /\ IsDigit(Head(s))
    THEN DigitRun(Tail(s), 10 * acc + DigitValue[Head(s)], n + 1)
    ELSE [v |-> acc, n |-> n]

\* parseFloat on text without fraction or exponent: leading white space is
\* skipped, then an optional sign and the longest run of digits; NaN if none
parseFloat(str) ==
  LET s == TrimStart(str)
      signed == s # <<>> /\ Head(s) \in {"-", "+"}
      run == DigitRun(IF signed THEN Tail(s) ELSE s, 0, 0)
  IN  IF run.n = 0 THEN [nan |-> TRUE, v |-> 0]
      ELSE [nan |-> FALSE, v |-> IF signed /\ Head(s) = "-" THEN 0 - run.v ELSE run.v]

\* str.replace(/,/g, '')
RECURSIVE StripCommas(_)
StripCommas(s) ==
  IF s = <<>> THEN <<>>
  ELSE IF Head(s) = "," THEN StripCommas(Tail(s))
  ELSE <<Head(s)>> \o StripCommas(Tail(s))

\* parseFloat(field?.replace(/,/g, '') || '0')
NumberField(fields, k) ==
  LET stripped == IF k <= Len(fields) THEN StripCommas(fields[k]) ELSE <<>>
  IN  parseFloat(IF stripped = <<>> THEN <<"0">> ELSE stripped)

\* x > 0 for a number that may be NaN
Positive(x) == ~x.nan /\ x.v > 0
NonNegative(x) == ~x.nan /\ x.v >= 0

\* the successor of a calendar date
NextDate(date) ==
  IF date.d < DaysInMonth(date.y, date.m) THEN [date EXCEPT !.d = @ + 1]
  ELSE IF date.m < 12 THEN [date EXCEPT !.m = @ + 1, !.d = 1]
  ELSE [date EXCEPT !.y = @ + 1, !.m = 1, !.d = 1]

\* date.toISOString().split('T')[0]: the UTC calendar date of the instant,
\* which is the local date shifted by date.utc days (-1, 0 or 1)
toISODate(date) ==
  LET local == [y |-> date.y, m |-> date.m, d |-> date.d]
  IN  IF date.utc = 0 THEN local
      ELSE IF date.utc < 0 THEN SetDateMinusOne(local) ELSE NextDate(local)

\* the body of the loop over lines[i], i >= 1: the deals one row adds
RowDeals_ZeroQuantity(line, date) ==
  LET fields == parseCSVLine(line)
  IN  IF Len(fields) < 8 THEN <<>>
      ELSE LET symbol == trim(fields[2])
               clientName == trim(fields[3])
               dealType == toUpperCase(trim(fields[4]))
               quantity == NumberField(fields, 5)
               price == NumberField(fields, 6)
           IN  IF /\ symbol # <<>> /\ clientName # <<>>
                  /\ NonNegative(quantity) /\ Positive(price)
                  /\ dealType = <<"B","U","Y">>
                 THEN << [date |-> toISODate(date), symbol |-> symbol,
                          clientName |-> clientName, dealType |-> dealType,
                          quantity |-> quantity.v, price |-> price.v,
                          value |-> quantity.v * price.v] >>
                 ELSE <<>>

RowDeals(line, date) ==
  LET fields == parseCSVLine(line)
  IN  IF Len(fields) < 8 THEN <<>>
      ELSE LET symbol == trim(fields[2])
               clientName == trim(fields[3])
               dealType == toUpperCase(trim(fields[4]))
               quantity == NumberField(fields, 5)
               price == NumberField(fields, 6)
           IN  IF /\ symbol # <<>> /\ clientName # <<>>
                  /\ Positive(quantity) /\ Positive(price)
                  /\ dealType = <<"B","U","Y">>
                 THEN << [date |-> toISODate(date), symbol |-> symbol,
                          clientName |-> clientName, dealType |-> dealType,
                          quantity |-> quantity.v, price |-> price.v,
                          value |-> quantity.v * price.v] >>
                 ELSE <<>>

\* csvText.split('\n').filter(line => line.trim())
RECURSIVE NonBlank(_)
NonBlank(lines) ==
  IF lines = <<>> THEN <<>>
  ELSE IF trim(Head(lines)) # <<>> THEN <<Head(lines)>> \o NonBlank(Tail(lines))
  ELSE NonBlank(Tail(lines))

\* for (let i = 1; i < lines.length; i++)
RECURSIVE RowsFrom(_, _, _)
RowsFrom(lines, i, date) ==
  IF i > Len(lines) THEN <<>>
  ELSE RowDeals(lines[i], date) \o RowsFrom(lines, i + 1, date)

\* 1-based position of lines[1], the first line after the header
FirstDataLine == 2

\* lines 121-155: the deals of a response text
parseCsvText(csvText, date) ==
  LET lines == NonBlank(split(csvText, "\n"))
  IN  IF Len(lines) < 2 THEN <<>> ELSE RowsFrom(lines, FirstDataLine, date)

-----------------------------------------------------------------------------
(* Calls of the body parser on every short body made of these lines *)

MaxBodyLines == 3

\* the header of the exchange file
RowHeader ==
  <<"D",",","S",",","C",",","T",",","Q",",","P",",","R",",","X">>
\* a qualifying row of a CRLF file
RowValid ==
  <<"1",",","A",",","L","I","C",",","B","U","Y",",","1","0",",","2",",","r",",","x","\r">>
\* quoted fields holding the delimiter, lower-case deal type
RowQuoted ==
  <<"1",",","B",",","\"","R","a","j",","," ","K","\"",",","b","u","y",",","\"","1",",","0","0","0","\"",",","5",",","r",",">>
\* seven fields
RowSevenFields ==
  <<"1",",","A",",","L","I","C",",","B","U","Y",",","1","0",",","2",",","r">>
\* blank symbol
RowNoSymbol ==
  <<"1",","," ",",","L","I","C",",","B","U","Y",",","1","0",",","2",",","r",",","x">>
\* empty counterparty
RowNoClient ==
  <<"1",",","A",",","\"","\"",",","B","U","Y",",","1","0",",","2",",","r",",","x">>
\* a sale
RowSell ==
  <<"1",",","A",",","L","I","C",",","S","E","L","L",",","1","0",",","2",",","r",",","x">>
\* quantity 0
RowZeroQty ==
  <<"1",",","A",",","L","I","C",",","B","U","Y",",","0",",","2",",","r",",","x">>
\* quantity not a number
RowNaNQty ==
  <<"1",",","A",",","L","I","C",",","B","U","Y",",","n","/","a",",","2",",","r",",","x">>
\* negative price
RowNegPrice ==
  <<"1",",","A",",","L","I","C",",","B","U","Y",",","1","0",",","-","2",",","r",",","x">>
\* a blank line
RowBlank ==
  <<" "," ","\r">>

RowKinds == {RowHeader, RowValid, RowQuoted, RowSevenFields, RowNoSymbol, RowNoClient,
             RowSell, RowZeroQty, RowNaNQty, RowNegPrice, RowBlank}

\* lines.join('\n')
RECURSIVE JoinLines(_)
JoinLines(lines) ==
  IF lines = <<>> THEN <<>>
  ELSE IF Len(lines) = 1 THEN Head(lines)
  ELSE Head(lines) \o <<"\n">> \o JoinLines(Tail(lines))

FetchDate == [y |-> 2024, m |-> 3, d |-> 1, utc |-> -1]

BodyInit ==
  /\ call \in {[arg |-> [lines |-> ls, csvText |-> JoinLines(ls), date |-> FetchDate],
                ret |-> <<>>, done |-> FALSE] : ls \in SeqsUpTo(RowKinds, MaxBodyLines)}
  /\ IdleServer /\ IdleClient

CallParseCsvText ==
  /\ ~call.done
  /\ call' = [call EXCEPT !.ret = parseCsvText(call.arg.csvText, call.arg.date), !.done = TRUE]
  /\ UNCHANGED <<serverVars, clientVars>>

BodyNext == CallParseCsvText

BodySpec == BodyInit /\ [][BodyNext]_vars

\* what the claim lets a line become: a Deal only with at least 8 fields, a
\* symbol, a counterparty, the deal type BUY in any case, and a quantity and
\* a price above zero
Acceptable(line) ==
  LET f == parseCSVLine(line)
  IN  /\ Len(f) >= 8
      /\ f[2] # <<>> /\ f[3] # <<>>
      /\ toUpperCase(f[4]) = BUY
      /\ LET q == parseFloat(StripCommas(f[5]))
             p == parseFloat(StripCommas(f[6]))
         IN  ~q.nan /\ q.v > 0 /\ ~p.nan /\ p.v > 0

RECURSIVE AcceptableAmong(_)
AcceptableAmong(lines) ==
  IF lines = <<>> THEN <<>>
  ELSE (IF Acceptable(Head(lines)) THEN <<Head(lines)>> ELSE <<>>) \o AcceptableAmong(Tail(lines))

\* C7: the header (first non-blank line) never becomes a Deal; the Deals are,
\* in order, those of the later non-blank lines that meet every condition,
\* each line decided on its own.
C7_RowAcceptance ==
  call.done =>
    LET lines == NonBlank(call.arg.lines)
        kept == IF lines = <<>> THEN <<>> ELSE AcceptableAmong(Tail(lines))
    IN  /\ Len(call.ret) = Len(kept)
        /\ \A k \in 1..Len(kept) :
             LET f == parseCSVLine(kept[k])
                 dl == call.ret[k]
             IN  /\ dl.symbol = f[2] /\ dl.clientName = f[3]
                 /\ dl.dealType = BUY
                 /\ dl.quantity > 0 /\ dl.price > 0
                 /\ dl.value = dl.quantity * dl.price

\* a body whose first line is a well-formed row (taken as the header), then a
\* malformed row, then a quoted row that is accepted
C7_Witness ==
  /\ call.done
  /\ call.arg.lines = <<RowValid, RowSevenFields, RowQuoted>>
  /\ Len(call.ret) = 1
  /\ call.ret[1].symbol = <<"B">>
  /\ call.ret[1].quantity = 1000
  /\ call.ret[1].clientName = <<"R","a","j",","," ","K">>


-----------------------------------------------------------------------------
(* POST: the start(controller) callback and downloadBhavCopy *)

\* `data: ${JSON.stringify({...})}\n\n` of each kind, before encoding
FetchingEvent(date) ==
  [type |-> "progress", message |-> [text |-> "Fetching data for", date |-> date]]
AnalyzingEvent(count) ==
  [type |-> "progress", message |-> [text |-> "Analyzing", count |-> count]]
ResultEvent(results) == [type |-> "result", data |-> results]

CatchEvent_PartialResult(ds) == [type |-> "result", data |-> analyzeAccumulation(ds)]

\* the event of the catch block of POST; allDeals is not in its scope
CatchEvent(ds) == [type |-> "error", message |-> [text |-> "error.message"]]

\* controller.enqueue and controller.close succeed on a readable stream whose
\* close was not requested, and raise TypeError otherwise
CanCloseOrEnqueue(c) == c = "readable"

AfterClose_StillReadable(c) == c

\* the controller after a successful close()
AfterClose(c) == "closed"

\* the for..of loop has another date
HasNext_SkipsLast(i, ds) == i < Len(ds)

HasNext(i, ds) == i <= Len(ds)

\* where control goes when fetch() or response.text() rejects inside
\* downloadBhavCopy: its catch returns [] to the loop
FetchCatch_Rethrows == "catch"

FetchCatch == "push"

\* a row of a second institutional buyer
RowBank ==
  <<"1",",","C",",","a","b","c"," ","b","a","n","k"," ","l","t","d",",","B","U","Y",",","5",",","3",",","r",",","x">>

\* response bodies the archive serves in the model
ServerBodies ==
  { <<>>,
    JoinLines(<<RowHeader>>),
    JoinLines(<<RowHeader, RowValid, RowBlank>>),
    JoinLines(<<RowHeader, RowQuoted, RowSevenFields, RowBank>>) }

\* new Date() of a run: a Monday, a Sunday after a leap day, a 2 January,
\* with the UTC date behind, equal to or ahead of the local date
ServerToday ==
  { [y |-> 2024, m |-> 3, d |-> 4, utc |-> 0],
    [y |-> 2024, m |-> 3, d |-> 3, utc |-> -1],
    [y |-> 2024, m |-> 1, d |-> 2, utc |-> 1] }

Init ==
  /\ today \in ServerToday
  /\ pc = "start"
  /\ dates = <<>> /\ idx = 0 /\ deals = <<>> /\ allDeals = <<>>
  /\ ctrl = "readable" /\ log = <<>> /\ outcome = "none" /\ fault = FALSE
  /\ call = <<>> /\ IdleClient

\* lines 205-209
StartRun ==
  /\ pc = "start"
  /\ dates' = getLastNBusinessDays(WindowDays, today)
  /\ allDeals' = <<>>
  /\ idx' = 1
  /\ pc' = "loop"
  /\ UNCHANGED <<today, deals, ctrl, log, outcome, fault, call, clientVars>>

\* line 211: for (const date of dates)
ForOf ==
  /\ pc = "loop"
  /\ pc' = IF HasNext(idx, dates) THEN "progress" ELSE "summary"
  /\ UNCHANGED <<today, dates, idx, deals, allDeals, ctrl, log, outcome, fault,
                 call, clientVars>>

\* a controller.enqueue(chunk) at position pc, going to `next` or, on
\* TypeError, to `onThrow`
Enqueue(chunk, next, onThrow) ==
  IF CanCloseOrEnqueue(ctrl)
    THEN /\ log' = Append(log, [op |-> "enqueue", chunk |-> chunk])
         /\ pc' = next
         /\ fault' = fault
    ELSE /\ log' = Append(log, [op |-> "enqueue throws", chunk |-> chunk])
         /\ pc' = onThrow
         /\ fault' = TRUE

\* a controller.close()
Close(next, onThrow) ==
  IF CanCloseOrEnqueue(ctrl)
    THEN /\ log' = Append(log, [op |-> "close"])
         /\ ctrl' = AfterClose(ctrl)
         /\ pc' = next
         /\ fault' = fault
    ELSE /\ log' = Append(log, [op |-> "close throws"])
         /\ ctrl' = ctrl
         /\ pc' = onThrow
         /\ fault' = TRUE

\* lines 99-106: the Progress event of the day, outside the try of
\* downloadBhavCopy, then the request
EmitFetching ==
  /\ pc = "progress"
  /\ IF CanCloseOrEnqueue(ctrl)
       THEN /\ log' = log \o << [op |-> "enqueue", chunk |-> FetchingEvent(dates[idx])],
                                [op |-> "fetch", date |-> dates[idx]] >>
            /\ pc' = "fetch"
            /\ fault' = fault
       ELSE Enqueue(FetchingEvent(dates[idx]), "fetch", "catch")
  /\ UNCHANGED <<today, dates, idx, deals, allDeals, ctrl, outcome, call, clientVars>>

Settled == Append(log, [op |-> "settled", date |-> dates[idx]])

\* line 106 rejects (network exception): lines 156-158
FetchRejects ==
  /\ pc = "fetch"
  /\ outcome' = "network error"
  /\ deals' = <<>>
  /\ pc' = FetchCatch
  /\ fault' = (fault \/ FetchCatch = "catch")
  /\ log' = Settled
  /\ UNCHANGED <<today, dates, idx, allDeals, ctrl, call, clientVars>>

\* lines 116-119: !response.ok
FetchNotOk ==
  /\ pc = "fetch"
  /\ outcome' = "not ok"
  /\ deals' = <<>>
  /\ pc' = "push"
  /\ log' = Settled
  /\ UNCHANGED <<today, dates, idx, allDeals, ctrl, fault, call, clientVars>>

\* line 121 rejects (the body cannot be read): lines 156-158
ReadRejects ==
  /\ pc = "fetch"
  /\ outcome' = "read error"
  /\ deals' = <<>>
  /\ pc' = FetchCatch
  /\ fault' = (fault \/ FetchCatch = "catch")
  /\ log' = Settled
  /\ UNCHANGED <<today, dates, idx, allDeals, ctrl, call, clientVars>>

\* lines 121-155: a body arrives
FetchBody ==
  /\ pc = "fetch"
  /\ \E csvText \in ServerBodies :
       /\ outcome' = (IF Len(NonBlank(split(csvText, "\n"))) < 2 THEN "short body" ELSE "body")
       /\ deals' = parseCsvText(csvText, dates[idx])
       /\ log' = Settled
  /\ pc' = "push"
  /\ UNCHANGED <<today, dates, idx, allDeals, ctrl, fault, call, clientVars>>

\* line 213: allDeals.push(...deals)
PushDeals ==
  /\ pc = "push"
  /\ allDeals' = allDeals \o deals
  /\ idx' = idx + 1
  /\ pc' = "loop"
  /\ UNCHANGED <<today, dates, deals, ctrl, log, outcome, fault, call, clientVars>>

\* line 213 raises RangeError: the spread passes every deal as an argument,
\* and the engine bounds the number of arguments; the bound is not in the
\* source, so any day with deals may exceed it
PushOverflows ==
  /\ pc = "push"
  /\ deals # <<>>
  /\ pc' = "catch"
  /\ fault' = TRUE
  /\ UNCHANGED <<today, dates, idx, deals, allDeals, ctrl, log, outcome, call, clientVars>>

\* lines 216-220
EmitAnalyzing ==
  /\ pc = "summary"
  /\ Enqueue(AnalyzingEvent(Len(allDeals)), "result", "catch")
  /\ UNCHANGED <<today, dates, idx, deals, allDeals, ctrl, outcome, call, clientVars>>

\* lines 222-228
EmitResult ==
  /\ pc = "result"
  /\ Enqueue(ResultEvent(analyzeAccumulation(allDeals)), "close", "catch")
  /\ UNCHANGED <<today, dates, idx, deals, allDeals, ctrl, outcome, call, clientVars>>

\* line 230
CloseStream ==
  /\ pc = "close"
  /\ Close("done", "catch")
  /\ UNCHANGED <<today, dates, idx, deals, allDeals, outcome, call, clientVars>>

\* lines 231-236
CatchEmitError ==
  /\ pc = "catch"
  /\ Enqueue(CatchEvent(allDeals), "catchClose", "rejected")
  /\ UNCHANGED <<today, dates, idx, deals, allDeals, ctrl, outcome, call, clientVars>>

\* line 237
CatchClose ==
  /\ pc = "catchClose"
  /\ Close("done", "rejected")
  /\ UNCHANGED <<today, dates, idx, deals, allDeals, outcome, call, clientVars>>

Next ==
  \/ StartRun \/ ForOf \/ EmitFetching
  \/ FetchRejects \/ FetchNotOk \/ ReadRejects \/ FetchBody
  \/ PushDeals \/ PushOverflows
  \/ EmitAnalyzing \/ EmitResult \/ CloseStream
  \/ CatchEmitError \/ CatchClose

Spec == Init /\ [][Next]_vars

\* the event loop runs every continuation that is ready, and every request
\* settles
FairSpec == Spec /\ WF_vars(Next)


-----------------------------------------------------------------------------
(* Claims about the run *)

\* positions of the log where a chunk of the given type was enqueued
Emitted(type) ==
  {k \in 1..Len(log) : log[k].op = "enqueue" /\ log[k].chunk.type = type}

\* positions of the log where close() was called, whether or not it raised
CloseCalls == {k \in 1..Len(log) : log[k].op \in {"close", "close throws"}}

\* the run is over: start(controller) returned or raised
Over == pc \in {"done", "rejected"}

\* C1: a run of N = 5 business days in which nothing reaches the catch of POST
\* emits, per day in calendar order, one Progress and only then issues the
\* day's fetch; after the last fetch settled one summary Progress, then the
\* one Result, then the close; N+1 Progress events, no Error event.
C1_CleanRun ==
  /\ ~fault => Emitted("error") = {}
  /\ (Over /\ ~fault) =>
       LET n == WindowDays
       IN  /\ Len(dates) = n
           /\ Len(log) = 3 * n + 3
           /\ \A k \in 1..n :
                /\ log[3 * k - 2] = [op |-> "enqueue", chunk |-> FetchingEvent(dates[k])]
                /\ log[3 * k - 1] = [op |-> "fetch", date |-> dates[k]]
                /\ log[3 * k] = [op |-> "settled", date |-> dates[k]]
           /\ \A k \in 1..(n - 1) : DayNumber(dates[k]) > DayNumber(dates[k + 1])
           /\ log[3 * n + 1] = [op |-> "enqueue", chunk |-> AnalyzingEvent(Len(allDeals))]
           /\ log[3 * n + 2] = [op |-> "enqueue",
                                chunk |-> ResultEvent(analyzeAccumulation(allDeals))]
           /\ log[3 * n + 3] = [op |-> "close"]
           /\ Cardinality(Emitted("progress")) = n + 1
           /\ Cardinality(Emitted("result")) = 1
           /\ Emitted("error") = {}

\* a clean run that gathered three deals of two symbols, the last day with
\* data
C1_Witness ==
  /\ pc = "done" /\ ~fault
  /\ outcome = "body"
  /\ Len(allDeals) = 3
  /\ Len(log[Len(log) - 1].chunk.data) = 2

\* C2: the stream never holds a Result and an Error, nor two of either; a run
\* that a fault ended has emitted one Error and no Result.
C2_ResultXorError ==
  /\ Cardinality(Emitted("result")) <= 1
  /\ Cardinality(Emitted("error")) <= 1
  /\ Emitted("result") = {} \/ Emitted("error") = {}
  /\ (Over /\ fault) => Cardinality(Emitted("error")) = 1 /\ Emitted("result") = {}

\* a run that gathered deals for two days and failed on the third
C2_Witness ==
  /\ pc = "done" /\ fault
  /\ idx = 3 /\ allDeals # <<>>
  /\ Cardinality(Emitted("error")) = 1

Absorbed == {"network error", "not ok", "read error", "short body"}

\* C3: whatever the day's request does, downloadBhavCopy returns to the loop;
\* for a failed request, an unsuccessful status, an unreadable or a short
\* body it returns no deals, and the loop then moves to the next day without
\* reaching the catch of POST.
C3_FetchAbsorbed ==
  [][ /\ (pc = "fetch" /\ pc' # "fetch") =>
           /\ pc' = "push" /\ ~fault'
           /\ outcome' \in Absorbed \cup {"body"}
           /\ outcome' \in Absorbed => deals' = <<>>
      /\ (pc = "push" /\ outcome \in Absorbed) =>
           /\ pc' = "loop" /\ idx' = idx + 1 /\ ~fault' /\ allDeals' = allDeals
           /\ Emitted("error") = {} ]_vars

\* the loop went on to the next day after a request failed
C3_Witness ==
  /\ pc = "progress" /\ idx = 3
  /\ outcome = "network error"
  /\ deals = <<>> /\ ~fault
  /\ log[Len(log)] = [op |-> "settled", date |-> dates[2]]

\* close() is called at most once, as the last call of the run, right after
\* the Result or the Error was enqueued, and it closes the stream
ClosedOnce ==
  /\ Cardinality(CloseCalls) <= 1
  /\ \A k \in CloseCalls :
       /\ k = Len(log)
       /\ log[k].op = "close"
       /\ k > 1 /\ log[k - 1].op = "enqueue" /\ log[k - 1].chunk.type \in {"result", "error"}
       /\ ctrl = "closed"
  /\ ctrl = "closed" => CloseCalls # {}
  /\ Over => pc = "done" /\ CloseCalls # {}

\* C4: when every request settles the run ends and its stream is closed,
\* exactly once, right after the Result or the Error, with nothing enqueued
\* after the close.
C4_ClosesOnce == <>(pc = "done" /\ ctrl = "closed") /\ []ClosedOnce

\* a failed run: the close follows the Error
C4_Witness ==
  /\ pc = "done" /\ fault /\ ctrl = "closed"
  /\ log[Len(log)].op = "close"
  /\ log[Len(log) - 1].chunk.type = "error"

-----------------------------------------------------------------------------
(* The wire format and the consumer of page.tsx *)

\* JSON.stringify of an event: an object text `{...}` that opens with the
\* type and carries the message or the symbols of the data; braces occur
\* only at its two ends
Stringify(event) ==
  <<"{">> \o
  (IF event.type = "progress"
     THEN <<"p">> \o (IF "date" \in DOMAIN event.message
                        THEN <<"F", Digits[(event.message.date.d \div 10) + 1],
                                    Digits[(event.message.date.d % 10) + 1]>>
                        ELSE <<"A", Digits[(event.message.count % 10) + 1]>>)
   ELSE IF event.type = "result"
     THEN <<"r">> \o [k \in 1..Len(event.data) |-> event.data[k].symbol[1]]
   ELSE <<"e", "!">>) \o
  <<"}">>

\* encoder.encode(`data: ${JSON.stringify(event)}\n\n`)
Encode(event) == <<"d","a","t","a",":"," ">> \o Stringify(event) \o <<"\n","\n">>

RECURSIVE EncodeAll(_)
EncodeAll(events) ==
  IF events = <<>> THEN <<>> ELSE Encode(Head(events)) \o EncodeAll(Tail(events))

\* JSON.parse accepts a complete object text and raises SyntaxError on any
\* other text
WellFormed(text) ==
  /\ Len(text) >= 3
  /\ text[1] = "{" /\ text[Len(text)] = "}"
  /\ text[2] \in {"p", "r", "e"}
  /\ \A k \in 2..(Len(text) - 1) : text[k] \notin {"{", "}"}
  /\ text[2] = "p" => Len(text) \in {5, 6}
  /\ text[2] = "e" => Len(text) = 4

JSONparse(text) ==
  IF ~WellFormed(text) THEN [type |-> "SyntaxError"]
  ELSE IF text[2] = "p" THEN [type |-> "progress", message |-> SubSeq(text, 3, Len(text) - 1)]
  ELSE IF text[2] = "r" THEN [type |-> "result", data |-> SubSeq(text, 3, Len(text) - 1)]
  ELSE [type |-> "error", message |-> SubSeq(text, 3, Len(text) - 1)]

\* lines 46-57: one line of a chunk, applied to the page state
ApplyLine(st, line) ==
  IF st.threw \/ ~startsWith(line, <<"d","a","t","a",":"," ">>) THEN st
  ELSE LET data == JSONparse(SubSeq(line, 7, Len(line)))
       IN  IF data.type = "SyntaxError"
             THEN [st EXCEPT !.threw = TRUE]
           ELSE IF data.type = "progress"
             THEN [st EXCEPT !.progress = data.message, !.applied = Append(@, data)]
           ELSE IF data.type = "result"
             THEN [st EXCEPT !.results = data.data,
                             !.progress = <<"A","n","a","l","y","s","i","s"," ",
                                            "c","o","m","p","l","e","t","e","!">>,
                             !.applied = Append(@, data)]
           ELSE [st EXCEPT !.error = data.message, !.applied = Append(@, data)]

\* for (const line of lines)
RECURSIVE ApplyLines(_, _)
ApplyLines(st, lines) ==
  IF lines = <<>> THEN st
  ELSE Const(Tail(lines), LAMBDA rest :
       Const(ApplyLine(st, Head(lines)), LAMBDA after :
         ApplyLines(after, rest)))

\* err.message of the SyntaxError
SyntaxErrorMessage == <<"S","y","n","t","a","x","E","r","r","o","r">>

\* event streams the route emits: the Progress events of the first days,
\* then the summary and the Result, or the Error
StreamDays == getLastNBusinessDays(WindowDays, [y |-> 2024, m |-> 3, d |-> 4, utc |-> 0])

StreamData ==
  { analyzeAccumulation(<<>>),
    analyzeAccumulation(<<Deal(SomeDate, <<"A">>, <<"L","I","C">>, 10, 2)>>),
    analyzeAccumulation(<<Deal(SomeDate, <<"A">>, <<"L","I","C">>, 10, 2),
                          Deal(SomeDate, <<"B">>, <<"X"," ","F","u","n","d">>, 5, 1)>>) }

ServerStreams ==
  {[k \in 1..WindowDays |-> FetchingEvent(StreamDays[k])]
      \o <<AnalyzingEvent(Len(data)), ResultEvent(data)>> : data \in StreamData}
  \cup
  {[k \in 1..n |-> FetchingEvent(StreamDays[k])] \o <<CatchEvent(<<>>)>> : n \in 1..WindowDays}

\* lines 20-37: the page after the response arrived; `sent` is what the route
\* enqueued, all of it on its way
ClientInit ==
  /\ \E events \in ServerStreams :
       /\ wire = EncodeAll(events)
       /\ client = [pc |-> "reading", loading |-> TRUE, results |-> <<>>, error |-> <<>>,
                    progress |-> <<"S","t","a","r","t">>, applied |-> <<>>, threw |-> FALSE,
                    sent |-> events]
  /\ call = <<>> /\ IdleServer

\* lines 39-58, and 61-65 when JSON.parse raises: one read() that returns the
\* next bytes, however many the transport delivers at once
ReadChunk ==
  /\ client.pc = "reading"
  /\ wire # <<>>
  /\ \E n \in 1..Len(wire) :
       LET chunk == SubSeq(wire, 1, n)
           st == ApplyLines(client, split(chunk, "\n"))
       IN  /\ wire' = SubSeq(wire, n + 1, Len(wire))
           /\ client' = IF st.threw
                          THEN [st EXCEPT !.error = SyntaxErrorMessage,
                                          !.loading = FALSE, !.pc = "finished"]
                          ELSE st
  /\ UNCHANGED <<call, serverVars>>

\* lines 39-40 and 63-65: read() reports done
ReadDone ==
  /\ client.pc = "reading"
  /\ wire = <<>>
  /\ client' = [client EXCEPT !.loading = FALSE, !.pc = "finished"]
  /\ UNCHANGED <<wire, call, serverVars>>

ClientNext == ReadChunk \/ ReadDone

ClientSpec == ClientInit /\ [][ClientNext]_vars

RECURSIVE ParsedAll(_)
ParsedAll(events) ==
  IF events = <<>> THEN <<>>
  ELSE <<JSONparse(Stringify(Head(events)))>> \o ParsedAll(Tail(events))

\* C10: when the page stops reading it has applied every event the route
\* enqueued, once and in order, however the bytes were divided into reads; a
\* stream with a Result and no Error leaves the results set, no error shown
\* and loading false.
C10_AppliesEveryEvent ==
  client.pc = "finished" =>
    /\ client.applied = ParsedAll(client.sent)
    /\ client.sent[Len(client.sent)].type = "result" =>
         /\ client.results = JSONparse(Stringify(client.sent[Len(client.sent)])).data
         /\ client.error = <<>>
         /\ client.loading = FALSE

====
